---- MODULE Spec2Model ----
(***************************************************************************)
(* Model of pc_wsl/events/events_from_detections.py: the single-pass       *)
(* reduction of a stream of per-frame detection records into confirmed     *)
(* events (ROI filter, confidence floor, greedy track association,         *)
(* persistence confirmation, event synthesis with deterministic ids).      *)
(*                                                                         *)
(* Numbers.  Floats are modelled by integers: a confidence is in           *)
(* hundredths, a timestamp in frame periods, a pixel coordinate in pixels. *)
(* A bounding-box center 0.5*(x1+x2) is kept in half pixels (x1+x2), and   *)
(* every length it is compared with is doubled, so that all comparisons    *)
(* are the exact ones of the code.                                         *)
(***************************************************************************)
EXTENDS Integers, Sequences, FiniteSets, TLC

VARIABLES
    args,                \* parsed command line (conf, dist_px, gap_frames, modes, thresholds)
    poly,                \* ROI polygon, list of vertices
    pc,                  \* "start": before load_roi; "run": reading detections.jsonl;
                         \* "done": outputs written; "error": stopped by an exception
    line_no,             \* number of lines of detections.jsonl read
    error,               \* the line a schema error names (None without one)
    obj,                 \* the last record read (NoObj before the first)
    fps_used,
    fps_source,
    video_filename,
    width,
    height,
    total_frames,
    total_whitelist,
    total_roi_pass,
    total_roi_conf_pass,
    discarded_by_roi,
    discarded_by_conf,
    active,              \* list of Tracks
    finished,            \* list of Tracks
    next_track_id,
    matched_track_ids,   \* track ids matched in the last processed frame
    events,              \* the emitted event list (events.json)
    metrics,             \* the metrics document (None until written)
    out_dir,             \* the output directory, as a path below run_folder
    outputs,             \* names of the files written under out_dir
    stream,              \* the records of detections.jsonl processed so far
    lines                \* the lines of detections.jsonl read so far

vars == <<args, poly, pc, line_no, error, obj, fps_used, fps_source,
          video_filename, width, height, total_frames, total_whitelist,
          total_roi_pass, total_roi_conf_pass, discarded_by_roi,
          discarded_by_conf, active, finished, next_track_id,
          matched_track_ids, events, metrics, out_dir, outputs, stream, lines>>

\* Optional[T]: None is the empty tuple, a value v is <<v>>.
None == << >>
Some(v) == <<v>>
Val(o) == o[1]
NoObj == [frame_index |-> -1, timestamp_s |-> -1, detections |-> << >>]

----------------------------------------------------------------------------
\* Bounds of the model.
MaxRecords == 3          \* lines read from detections.jsonl
MaxDets == 2             \* detections per record

----------------------------------------------------------------------------
\* Geometry + helpers

Max(a, b) == IF a >= b THEN a ELSE b
Min(a, b) == IF a <= b THEN a ELSE b

\* One edge of the ray casting: does the edge (p1, p2) toggle `inside` for
\* the point (x, y)?  x_int > x is decided without the division, by the sign
\* of y2 - y1 (never 0 when the two ends lie on different sides of y).
EdgeCrosses(x, y, p1, p2) ==
    LET x1 == p1[1]  y1 == p1[2]  x2 == p2[1]  y2 == p2[2]
    IN  /\ (y1 > y) # (y2 > y)
        /\ IF y2 - y1 > 0
             THEN (y - y1) * (x2 - x1) > (x - x1) * (y2 - y1)
             ELSE (y - y1) * (x2 - x1) < (x - x1) * (y2 - y1)

RECURSIVE PipLoop(_, _, _, _, _)
PipLoop(x, y, pl, i, inside) ==
    IF i > Len(pl) THEN inside
    ELSE PipLoop(x, y, pl, i + 1,
                 IF EdgeCrosses(x, y, pl[i], pl[(i % Len(pl)) + 1])
                   THEN ~inside ELSE inside)

\* point_in_polygon(x, y, poly); x, y and pl in the same unit.
point_in_polygon(x, y, pl) ==
    IF Len(pl) < 3 THEN FALSE ELSE PipLoop(x, y, pl, 1, FALSE)

\* bbox_center_xyxy, in half pixels.
bbox_center_xyxy(x1, y1, x2, y2) == <<x1 + x2, y1 + y2>>

\* The polygon in half pixels, the unit of the centers.
HalfPx(pl) == [i \in 1..Len(pl) |-> <<2 * pl[i][1], 2 * pl[i][2]>>]

\* dist(a, b) squared, in half pixels squared (math.hypot is monotone in it).
DistSq(a, b) == (a[1] - b[1]) * (a[1] - b[1]) + (a[2] - b[2]) * (a[2] - b[2])

\* dist(a, b) <= dist_px, dist_px in pixels.
DistLeq(a, b, dist_px) == dist_px >= 0 /\ DistSq(a, b) <= 4 * dist_px * dist_px

----------------------------------------------------------------------------
\* Class names.  Python orders str lexicographically; the names are listed in
\* that order and compared by their rank.
ClassNames == <<"bottle", "cup">>
Classes == {ClassNames[i] : i \in 1..Len(ClassNames)}
ClassRank(c) == CHOOSE i \in 1..Len(ClassNames) : ClassNames[i] = c

----------------------------------------------------------------------------
\* Track object

\* Track._bump_class
BumpClass(hist, cls) == [hist EXCEPT ![cls] = @ + 1]

\* The class test left out.
can_match_Mutant(t, det, a) == DistLeq(t.last_center, det.center_xy, a.dist_px)

\* Track.can_match
can_match(t, det, a) ==
    IF a.track_mode = "class" /\ det.class_name # t.rep_class_name
      THEN FALSE
      ELSE DistLeq(t.last_center, det.center_xy, a.dist_px)

\* Track.match_distance (squared)
match_distance(t, det) == DistSq(t.last_center, det.center_xy)

\* [f for f in self.hit_frames if f >= lo]
InWindow(hit_frames, lo) == SelectSeq(hit_frames, LAMBDA f : f >= lo)

RECURSIVE SeqMin(_)
SeqMin(s) == IF Len(s) = 1 THEN s[1] ELSE Min(s[1], SeqMin(Tail(s)))

\* Track._update_max_hits_in_window
UpdateMaxHitsInWindow(t, frame_index, window_frames) ==
    LET lo == frame_index - (window_frames - 1)
    IN  [t EXCEPT !.max_hits_in_window =
             Max(@, Len(InWindow(t.hit_frames, lo)))]

\* Track.update, the streak: one more when the hit's frame follows the last
\* frame seen, else 1.
HitsConsecOnHit(t, frame_index) ==
    IF frame_index = t.last_frame_seen + 1 THEN t.hits_consec + 1 ELSE 1

\* A hit as confident as the representative replaces it: `>=` for `>`.
UpdateRepTieMutant(t, frame_index, det) ==
    IF det.confidence >= t.max_confidence
      THEN [t EXCEPT !.max_confidence = det.confidence,
                     !.rep_frame = frame_index,
                     !.rep_bbox = det.bbox_xyxy,
                     !.rep_class_name = det.class_name]
      ELSE t

\* The comparison turned round: `<` for `>`.
UpdateRepMutant(t, frame_index, det) ==
    IF det.confidence < t.max_confidence
      THEN [t EXCEPT !.max_confidence = det.confidence,
                     !.rep_frame = frame_index,
                     !.rep_bbox = det.bbox_xyxy,
                     !.rep_class_name = det.class_name]
      ELSE t

\* Track.update, the representative: replaced on a strictly larger confidence.
UpdateRep(t, frame_index, det) ==
    IF det.confidence > t.max_confidence
      THEN [t EXCEPT !.max_confidence = det.confidence,
                     !.rep_frame = frame_index,
                     !.rep_bbox = det.bbox_xyxy,
                     !.rep_class_name = det.class_name]
      ELSE t

\* The start counted forwards from the confirming frame.
ConfirmConsecutiveStartMutant(t, frame_index, n_consec) ==
    IF t.hits_consec >= n_consec
      THEN [t EXCEPT !.confirmed_at_frame = Some(frame_index),
                     !.confirmed_start_frame = Some(frame_index + (n_consec - 1))]
      ELSE t

\* Confirms one hit late: `>` for `>=`.
ConfirmConsecutiveMutant(t, frame_index, n_consec) ==
    IF t.hits_consec > n_consec
      THEN [t EXCEPT !.confirmed_at_frame = Some(frame_index),
                     !.confirmed_start_frame = Some(frame_index - (n_consec - 1))]
      ELSE t

\* Track.update, consecutive persistence (t not yet confirmed).
ConfirmConsecutive(t, frame_index, n_consec) ==
    IF t.hits_consec >= n_consec
      THEN [t EXCEPT !.confirmed_at_frame = Some(frame_index),
                     !.confirmed_start_frame = Some(frame_index - (n_consec - 1))]
      ELSE t

\* The start backdated to the first frame of the window.
ConfirmWindowBackdateMutant(t, frame_index, hits_needed, window_frames) ==
    LET t1 == UpdateMaxHitsInWindow(t, frame_index, window_frames)
        lo == frame_index - (window_frames - 1)
        in_window == InWindow(t1.hit_frames, lo)
    IN  IF Len(in_window) >= hits_needed
          THEN [t1 EXCEPT !.confirmed_at_frame = Some(frame_index),
                          !.confirmed_start_frame = Some(lo)]
          ELSE t1

\* The window one frame too long: lo = frame_index - window_frames.
ConfirmWindowMutant(t, frame_index, hits_needed, window_frames) ==
    LET lo == frame_index - window_frames
        in_window == InWindow(t.hit_frames, lo)
    IN  IF Len(in_window) >= hits_needed
          THEN [t EXCEPT !.confirmed_at_frame = Some(frame_index),
                         !.confirmed_start_frame = Some(SeqMin(in_window))]
          ELSE t

\* Track.update, window persistence (t not yet confirmed).
ConfirmWindow(t, frame_index, hits_needed, window_frames) ==
    LET t1 == UpdateMaxHitsInWindow(t, frame_index, window_frames)
        lo == frame_index - (window_frames - 1)
        in_window == InWindow(t1.hit_frames, lo)
    IN  IF Len(in_window) >= hits_needed
          THEN [t1 EXCEPT !.confirmed_at_frame = Some(frame_index),
                          !.confirmed_start_frame = Some(SeqMin(in_window))]
          ELSE t1

\* The test `if self.confirmed_at_frame is None` left out.
ConfirmMutant(t, frame_index, a) ==
    IF a.persist_mode = "consecutive"
      THEN ConfirmConsecutive(t, frame_index, a.n_consec)
      ELSE ConfirmWindow(t, frame_index, a.hits, a.window)

\* Track.update, persistence confirmation.
Confirm(t, frame_index, a) ==
    IF t.confirmed_at_frame = None
      THEN IF a.persist_mode = "consecutive"
             THEN ConfirmConsecutive(t, frame_index, a.n_consec)
             ELSE ConfirmWindow(t, frame_index, a.hits, a.window)
      ELSE IF a.persist_mode = "window"
             THEN UpdateMaxHitsInWindow(t, frame_index, a.window)
             ELSE t

Member(frame_index, timestamp_s, det) ==
    [frame_index |-> frame_index, timestamp_s |-> timestamp_s,
     class_name |-> det.class_name, confidence |-> det.confidence,
     bbox_xyxy |-> det.bbox_xyxy, center_xy |-> det.center_xy]

\* The line `self.end_frame = frame_index` left out.
update_Mutant(t, frame_index, timestamp_s, det, a) ==
    LET hc == HitsConsecOnHit(t, frame_index)
        t1 == [t EXCEPT !.hits_consec = hc,
                        !.max_hits_consec = Max(@, hc),
                        !.hits_total = @ + 1,
                        !.hit_frames = Append(@, frame_index),
                        !.end_time_s = timestamp_s,
                        !.last_frame_seen = frame_index,
                        !.missed = 0,
                        !.last_center = det.center_xy,
                        !.class_hist = BumpClass(@, det.class_name)]
        t2 == UpdateRep(t1, frame_index, det)
        t3 == [t2 EXCEPT !.members = Append(@, Member(frame_index, timestamp_s, det))]
    IN  Confirm(t3, frame_index, a)

\* Track.update
update(t, frame_index, timestamp_s, det, a) ==
    LET hc == HitsConsecOnHit(t, frame_index)
        t1 == [t EXCEPT !.hits_consec = hc,
                        !.max_hits_consec = Max(@, hc),
                        !.hits_total = @ + 1,
                        !.hit_frames = Append(@, frame_index),
                        !.end_frame = frame_index,
                        !.end_time_s = timestamp_s,
                        !.last_frame_seen = frame_index,
                        !.missed = 0,
                        !.last_center = det.center_xy,
                        !.class_hist = BumpClass(@, det.class_name)]
        t2 == UpdateRep(t1, frame_index, det)
        t3 == [t2 EXCEPT !.members = Append(@, Member(frame_index, timestamp_s, det))]
    IN  Confirm(t3, frame_index, a)

\* Track.__init__ (which ends with a call of update on the creating hit)
NewTrack(track_id, frame_index, timestamp_s, det, a) ==
    update([track_id |-> track_id,
            start_frame |-> frame_index,
            end_frame |-> frame_index,
            start_time_s |-> timestamp_s,
            end_time_s |-> timestamp_s,
            last_frame_seen |-> frame_index,
            missed |-> 0,
            members |-> << >>,
            max_confidence |-> det.confidence,
            rep_frame |-> frame_index,
            rep_bbox |-> det.bbox_xyxy,
            rep_class_name |-> det.class_name,
            class_hist |-> BumpClass([c \in Classes |-> 0], det.class_name),
            last_center |-> det.center_xy,
            hits_total |-> 0,
            hits_consec |-> 0,
            max_hits_consec |-> 0,
            hit_frames |-> << >>,
            confirmed_at_frame |-> None,
            confirmed_start_frame |-> None,
            max_hits_in_window |-> 1],
           frame_index, timestamp_s, det, a)

----------------------------------------------------------------------------
\* main: candidates after ROI + CONF

\* The ROI test of one detection: the center of its box against the polygon.
PassesRoi(d, pl) ==
    LET c == bbox_center_xyxy(d.x1, d.y1, d.x2, d.y2)
    IN  point_in_polygon(c[1], c[2], HalfPx(pl))

\* The floor itself discarded: `<=` for `<`.
PassesConfMutant(d, a) == ~(d.confidence <= a.conf)

\* The confidence test: `if conf < float(args.conf)` discards.
PassesConf(d, a) == ~(d.confidence < a.conf)

Candidate(d, frame_index, timestamp_s) ==
    [class_name |-> d.class_name, confidence |-> d.confidence,
     bbox_xyxy |-> <<d.x1, d.y1, d.x2, d.y2>>,
     center_xy |-> bbox_center_xyxy(d.x1, d.y1, d.x2, d.y2),
     frame_index |-> frame_index, timestamp_s |-> timestamp_s]

\* The `continue` after `discarded_by_roi += 1` left out.
FilterStepMutant(acc, d, frame_index, timestamp_s, pl, a) ==
    LET acc1 == IF ~PassesRoi(d, pl)
                  THEN [acc EXCEPT !.discarded_by_roi = @ + 1]
                  ELSE [acc EXCEPT !.total_roi_pass = @ + 1]
    IN  IF ~PassesConf(d, a)
          THEN [acc1 EXCEPT !.discarded_by_conf = @ + 1]
          ELSE [acc1 EXCEPT !.total_roi_conf_pass = @ + 1,
                            !.candidates = Append(@, Candidate(d, frame_index, timestamp_s))]

\* One turn of `for di, d in enumerate(dets)`; acc holds the candidates and
\* the counters.
FilterStep(acc, d, frame_index, timestamp_s, pl, a) ==
    IF ~PassesRoi(d, pl)
      THEN [acc EXCEPT !.discarded_by_roi = @ + 1]
      ELSE IF ~PassesConf(d, a)
        THEN [acc EXCEPT !.total_roi_pass = @ + 1, !.discarded_by_conf = @ + 1]
        ELSE [acc EXCEPT !.total_roi_pass = @ + 1, !.total_roi_conf_pass = @ + 1,
                         !.candidates = Append(@, Candidate(d, frame_index, timestamp_s))]

RECURSIVE FilterLoop(_, _, _, _, _, _, _)
FilterLoop(acc, dets, i, frame_index, timestamp_s, pl, a) ==
    IF i > Len(dets) THEN acc
    ELSE FilterLoop(FilterStep(acc, dets[i], frame_index, timestamp_s, pl, a),
                    dets, i + 1, frame_index, timestamp_s, pl, a)

----------------------------------------------------------------------------
\* main: greedy matching

\* A Track as near as the best so far replaces it: `<=` for `<`.
RECURSIVE BestLoopMutant(_, _, _, _, _)
BestLoopMutant(act, det, a, i, b) ==
    IF i > Len(act) THEN b
    ELSE IF ~can_match(act[i], det, a) THEN BestLoopMutant(act, det, a, i + 1, b)
    ELSE IF b = 0 \/ match_distance(act[i], det) <= match_distance(act[b], det)
      THEN BestLoopMutant(act, det, a, i + 1, i)
      ELSE BestLoopMutant(act, det, a, i + 1, b)

\* `for t in active`: the index of best_t (0 for None) after the scan from i,
\* b being the best so far.
RECURSIVE BestLoop(_, _, _, _, _)
BestLoop(act, det, a, i, b) ==
    IF i > Len(act) THEN b
    ELSE IF ~can_match(act[i], det, a) THEN BestLoop(act, det, a, i + 1, b)
    ELSE IF b = 0 \/ match_distance(act[i], det) < match_distance(act[b], det)
      THEN BestLoop(act, det, a, i + 1, i)
      ELSE BestLoop(act, det, a, i + 1, b)

BestMatch(act, det, a) == BestLoop(act, det, a, 1, 0)

\* One turn of `for det in candidates`; st holds active, next_track_id and
\* matched_track_ids.
AssocStep(st, det, frame_index, timestamp_s, a) ==
    LET b == BestMatch(st.active, det, a)
    IN  IF b = 0
          THEN [active |-> Append(st.active,
                    NewTrack(st.next_track_id, frame_index, timestamp_s, det, a)),
                next_track_id |-> st.next_track_id + 1,
                matched |-> st.matched \cup {st.next_track_id}]
          ELSE [active |-> [st.active EXCEPT ![b] =
                    update(@, frame_index, timestamp_s, det, a)],
                next_track_id |-> st.next_track_id,
                matched |-> st.matched \cup {st.active[b].track_id}]

\* The loop left after its first turn.
AssocLoopMutant(st, cands, i, frame_index, timestamp_s, a) ==
    IF i > Len(cands) THEN st
    ELSE AssocStep(st, cands[i], frame_index, timestamp_s, a)

RECURSIVE AssocLoop(_, _, _, _, _, _)
AssocLoop(st, cands, i, frame_index, timestamp_s, a) ==
    IF i > Len(cands) THEN st
    ELSE AssocLoop(AssocStep(st, cands[i], frame_index, timestamp_s, a),
                   cands, i + 1, frame_index, timestamp_s, a)

----------------------------------------------------------------------------
\* main: missed handling / close tracks

\* `if t.track_id not in matched_track_ids: t.missed += 1`
Aged(t, matched) ==
    IF t.track_id \notin matched THEN [t EXCEPT !.missed = @ + 1] ELSE t

\* Closes a Track one miss early: `>=` for `>`.
ExpiredMutant(t, gap_frames) == t.missed >= gap_frames

\* `if t.missed > int(args.gap_frames)`
Expired(t, gap_frames) == t.missed > gap_frames

AgeAll(act, matched) == [i \in 1..Len(act) |-> Aged(act[i], matched)]

\* No Track leaves the active list.
StillActiveMutant(act, matched, gap_frames) == AgeAll(act, matched)

StillActive(act, matched, gap_frames) ==
    SelectSeq(AgeAll(act, matched), LAMBDA t : ~Expired(t, gap_frames))

NewlyFinished(act, matched, gap_frames) ==
    SelectSeq(AgeAll(act, matched), LAMBDA t : Expired(t, gap_frames))

----------------------------------------------------------------------------
\* main: confirmed tracks -> events, deterministic ordering and ids

\* member_map(track).get(frame, {"timestamp_s": dflt})["timestamp_s"]: the
\* dict keeps, for a frame index, the last member appended with it.
RECURSIVE MemberTime(_, _, _, _)
MemberTime(members, i, frame, dflt) ==
    IF i = 0 THEN dflt
    ELSE IF members[i].frame_index = frame THEN members[i].timestamp_s
    ELSE MemberTime(members, i - 1, frame, dflt)

\* The operands of the difference swapped.
DurationMutant(start_time_s, end_time_s) == Max(0, start_time_s - end_time_s)

\* duration_s = max(0.0, end_time_s - start_time_s)
Duration(start_time_s, end_time_s) == Max(0, end_time_s - start_time_s)

RawEvent(t) ==
    LET start_frame == Val(t.confirmed_start_frame)
        end_frame == t.end_frame
        start_time_s == MemberTime(t.members, Len(t.members), start_frame, t.start_time_s)
        end_time_s == MemberTime(t.members, Len(t.members), end_frame, t.end_time_s)
    IN  [class_name |-> t.rep_class_name,
         start_frame |-> start_frame,
         end_frame |-> end_frame,
         start_time_s |-> start_time_s,
         end_time_s |-> end_time_s,
         duration_s |-> Duration(start_time_s, end_time_s),
         max_confidence |-> t.max_confidence,
         representative_bbox |-> t.rep_bbox,
         rep_frame |-> t.rep_frame,
         trigger_frame |-> Val(t.confirmed_at_frame)]

\* `for t in finished`, skipping the tracks that were never confirmed.
IsConfirmed(t) == t.confirmed_at_frame # None /\ t.confirmed_start_frame # None

RawEvents(fin) ==
    LET conf == SelectSeq(fin, IsConfirmed)
    IN  [i \in 1..Len(conf) |-> RawEvent(conf[i])]

\* The sort key (start_frame, class_name, end_frame, rep_frame), compared as
\* Python compares tuples.
KeyLess(e1, e2) ==
    \/ e1.start_frame < e2.start_frame
    \/ /\ e1.start_frame = e2.start_frame
       /\ \/ ClassRank(e1.class_name) < ClassRank(e2.class_name)
          \/ /\ e1.class_name = e2.class_name
             /\ \/ e1.end_frame < e2.end_frame
                \/ /\ e1.end_frame = e2.end_frame
                   /\ e1.rep_frame < e2.rep_frame

\* list.sort is stable: an element goes after the elements already placed
\* whose key is not greater than its own.
RECURSIVE InsertSorted(_, _)
InsertSorted(sorted, e) ==
    IF sorted = << >> THEN <<e>>
    ELSE IF KeyLess(e, sorted[1]) THEN <<e>> \o sorted
    ELSE <<sorted[1]>> \o InsertSorted(Tail(sorted), e)

RECURSIVE SortLoop(_, _, _)
SortLoop(sorted, raw, i) ==
    IF i > Len(raw) THEN sorted
    ELSE SortLoop(InsertSorted(sorted, raw[i]), raw, i + 1)

\* The `raw_events.sort(...)` line left out.
SortEventsMutant(raw) == raw

SortEvents(raw) == SortLoop(<< >>, raw, 1)

\* f"ev_{i:04d}": the decimal digits of i, zero-padded to a width of 4.
EventIdWidth == 4

RECURSIVE DecDigits(_)
DecDigits(n) == IF n < 10 THEN <<n>> ELSE Append(DecDigits(n \div 10), n % 10)

RECURSIVE ZeroPad(_, _)
ZeroPad(ds, w) == IF Len(ds) >= w THEN ds ELSE ZeroPad(<<0>> \o ds, w)

EventId(i) == [prefix |-> "ev_", digits |-> ZeroPad(DecDigits(i), EventIdWidth)]

\* `for i, ev in enumerate(raw_events, start=1)`
AssignIds(sorted) ==
    [i \in 1..Len(sorted) |->
        [event_id |-> EventId(i),
         class_name |-> sorted[i].class_name,
         start_frame |-> sorted[i].start_frame,
         end_frame |-> sorted[i].end_frame,
         start_time_s |-> sorted[i].start_time_s,
         end_time_s |-> sorted[i].end_time_s,
         duration_s |-> sorted[i].duration_s,
         max_confidence |-> sorted[i].max_confidence,
         representative_bbox |-> sorted[i].representative_bbox,
         rep_frame |-> sorted[i].rep_frame,
         trigger_frame |-> sorted[i].trigger_frame]]

MakeEvents(fin) == AssignIds(SortEvents(RawEvents(fin)))

----------------------------------------------------------------------------
\* Lines of detections.jsonl

\* What a line gives, as far as main tells the cases apart: a line that is
\* empty after strip(); a text json.loads rejects; a JSON value that is not
\* an object; an object, which is a record of the keys it carries.  In an
\* object a null is None and a value v is Some(v), except for frame_index,
\* timestamp_s and detections, which main reads without a test for null.
BlankLine == [blank |-> TRUE]
InvalidJson == [json_error |-> TRUE]
NotADict == [json_value |-> "array"]

\* A value of the key `detections` that is not a list, and an entry of the
\* list that is not an object.
NotAList == <<[json_value |-> "string"]>>
NotADet == [json_value |-> "number"]

IsBlank(line) == "blank" \in DOMAIN line
IsJson(line) == "json_error" \notin DOMAIN line
IsDict(v) == "json_value" \notin DOMAIN v

REQUIRED_FRAME_KEYS == {"frame_index", "timestamp_s", "detections"}
REQUIRED_DET_KEYS == {"class_name", "confidence", "x1", "y1", "x2", "y2"}

\* An empty list of detections refused as well.
validate_frame_obj_Mutant(o) ==
    /\ REQUIRED_FRAME_KEYS \subseteq DOMAIN o
    /\ o.detections # NotAList
    /\ o.detections # << >>

\* validate_frame_obj: TRUE when it returns, FALSE when it raises.
validate_frame_obj(o) ==
    /\ REQUIRED_FRAME_KEYS \subseteq DOMAIN o
    /\ o.detections # NotAList

\* `k in obj and obj[k] is not None`
HasValue(o, k) == k \in DOMAIN o /\ o[k] # None

\* pick_fps: ok is FALSE when it raises.
pick_fps(o) ==
    IF HasValue(o, "fps_used_for_timestamps")
      THEN [ok |-> TRUE, fps |-> o.fps_used_for_timestamps,
            source |-> Some("fps_used_for_timestamps")]
      ELSE IF HasValue(o, "fps_reported")
        THEN [ok |-> TRUE, fps |-> o.fps_reported, source |-> Some("fps_reported")]
        ELSE [ok |-> FALSE, fps |-> None, source |-> None]

\* `if x is None: if k in obj and obj[k] is not None: x = obj[k] else: raise`;
\* None is the raise.
FirstSeen(x, o, k) == IF x # None THEN x ELSE IF HasValue(o, k) THEN o[k] ELSE None

\* The tests at the head of `for di, d in enumerate(dets)`.
ValidDet(d) == IsDict(d) /\ REQUIRED_DET_KEYS \subseteq DOMAIN d

\* The index of the first entry of dets that raises (0 when none does).
RECURSIVE FirstBadDet(_, _)
FirstBadDet(dets, i) ==
    IF i > Len(dets) THEN 0
    ELSE IF ~ValidDet(dets[i]) THEN i
    ELSE FirstBadDet(dets, i + 1)

----------------------------------------------------------------------------
\* main: metrics

\* The streak of the moment for the longest one.
MaxHitsConsecAllMutant(fin) ==
    IF fin = << >> THEN 0
    ELSE LET S == {fin[i].hits_consec : i \in 1..Len(fin)}
         IN  CHOOSE m \in S : \A x \in S : x <= m

\* max((t.max_hits_consec for t in finished), default=0)
MaxHitsConsecAll(fin) ==
    IF fin = << >> THEN 0
    ELSE LET S == {fin[i].max_hits_consec : i \in 1..Len(fin)}
         IN  CHOOSE m \in S : \A x \in S : x <= m

\* max((t.max_hits_in_window for t in finished), default=0)
MaxHitsInWindowAll(fin) ==
    IF fin = << >> THEN 0
    ELSE LET S == {fin[i].max_hits_in_window : i \in 1..Len(fin)}
         IN  CHOOSE m \in S : \A x \in S : x <= m

\* no_event_diag (without the top-k list and the per-class counts).
NoEventDiag(evs, fin, roi_conf_pass, a) ==
    IF Len(evs) = 0
      THEN Some([total_roi_conf_pass_detections |-> roi_conf_pass,
                 max_hits_consec_over_tracks |-> MaxHitsConsecAll(fin),
                 max_hits_in_window_over_tracks |->
                     IF a.persist_mode = "window"
                       THEN Some(MaxHitsInWindowAll(fin)) ELSE None])
      ELSE None

\* Every finished Track counted as confirmed.
TracksConfirmedMutant(fin) == Len(fin)

\* tracks_confirmed
TracksConfirmed(fin) ==
    Cardinality({i \in 1..Len(fin) : fin[i].confirmed_at_frame # None})

\* The files main writes after the loop.
ResultFiles == {"events.csv", "events.json", "metrics.json"}

\* The copy of the ROI file main writes before the loop.
RoiCopy == "roi.json"

----------------------------------------------------------------------------
\* The run

\* resolve_out_dir, as a path below run_folder (out_arg is None or a
\* relative path).
resolve_out_dir(roi_id, out_arg) ==
    IF out_arg = None THEN <<"events", roi_id>> ELSE Val(out_arg)

\* The roi_id of the ROI document of the runs that start after load_roi.
RoiId == "roi_1"

\* roi.get("roi_id", "roi_unknown")
RoiIdOf(roi) == IF "roi_id" \in DOMAIN roi THEN roi.roi_id ELSE "roi_unknown"

\* The state of the counters and of the tracking before the first line.
BeforeFirstLine ==
    /\ line_no = 0
    /\ error = None
    /\ obj = NoObj
    /\ fps_used = None
    /\ fps_source = None
    /\ video_filename = None
    /\ width = None
    /\ height = None
    /\ total_frames = 0
    /\ total_whitelist = 0
    /\ total_roi_pass = 0
    /\ total_roi_conf_pass = 0
    /\ discarded_by_roi = 0
    /\ discarded_by_conf = 0
    /\ active = << >>
    /\ finished = << >>
    /\ next_track_id = 1
    /\ matched_track_ids = {}
    /\ events = << >>
    /\ metrics = None
    /\ stream = << >>
    /\ lines = << >>

\* State after argument parsing, load_roi and the copy of the ROI file,
\* before the first line is read.
InitWith(configs, polygons) ==
    /\ args \in configs
    /\ poly \in polygons
    /\ pc = "run"
    /\ out_dir = resolve_out_dir(RoiId, args.out)
    /\ outputs = {RoiCopy}
    /\ BeforeFirstLine

\* State after argument parsing, before load_roi.
InitStart(configs) ==
    /\ args \in configs
    /\ poly = << >>
    /\ pc = "start"
    /\ out_dir = << >>
    /\ outputs = {}
    /\ BeforeFirstLine

\* main up to the loop: load_roi raises on a document without `polygon`;
\* else the polygon is taken as it is, out_dir is made and the ROI copied.
LoadRoi(roi) ==
    /\ pc = "start"
    /\ IF "polygon" \notin DOMAIN roi
         THEN /\ pc' = "error"
              /\ UNCHANGED <<poly, out_dir, outputs>>
         ELSE /\ pc' = "run"
              /\ poly' = roi.polygon
              /\ out_dir' = resolve_out_dir(RoiIdOf(roi), args.out)
              /\ outputs' = {RoiCopy}
    /\ UNCHANGED <<args, line_no, error, obj, fps_used, fps_source,
                   video_filename, width, height, total_frames,
                   total_whitelist, total_roi_pass, total_roi_conf_pass,
                   discarded_by_roi, discarded_by_conf, active, finished,
                   next_track_id, matched_track_ids, events, metrics, stream,
                   lines>>

\* Line numbers from 0: `enumerate(f)` without `start=1`.
SchemaErrorMutant(ln) == pc' = "error" /\ error' = Some(ln - 1)

\* `raise schema_error(run_folder, line_no, ...)`
SchemaError(ln) == pc' = "error" /\ error' = Some(ln)

\* One turn of `for line_no, line in enumerate(f, start=1)`.
ProcessFrame(line) ==
    /\ pc = "run"
    /\ line_no < MaxRecords
    /\ line_no' = line_no + 1
    /\ lines' = Append(lines, line)
    /\ UNCHANGED <<args, poly, out_dir, outputs, events, metrics>>
    /\ IF IsBlank(line)
         THEN UNCHANGED <<pc, error, obj, stream, fps_used, fps_source,
                          video_filename, width, height, total_frames,
                          total_whitelist, total_roi_pass, total_roi_conf_pass,
                          discarded_by_roi, discarded_by_conf, active, finished,
                          next_track_id, matched_track_ids>>
       ELSE IF ~IsJson(line) \/ ~IsDict(line) \/ ~validate_frame_obj(line)
         THEN /\ SchemaError(line_no')
              /\ UNCHANGED <<obj, stream, fps_used, fps_source,
                             video_filename, width, height, total_frames,
                             total_whitelist, total_roi_pass, total_roi_conf_pass,
                             discarded_by_roi, discarded_by_conf, active, finished,
                             next_track_id, matched_track_ids>>
       ELSE
         LET fps == IF fps_used = None THEN pick_fps(line)
                    ELSE [ok |-> TRUE, fps |-> fps_used, source |-> fps_source]
             vf == IF fps.ok THEN FirstSeen(video_filename, line, "video_filename")
                   ELSE video_filename
             w == IF vf # None THEN FirstSeen(width, line, "width") ELSE width
             h == IF w # None THEN FirstSeen(height, line, "height") ELSE height
             frame_index == line.frame_index
             timestamp_s == line.timestamp_s
             dets == line.detections
             bad == IF h # None THEN FirstBadDet(dets, 1) ELSE 0
             read == IF bad = 0 THEN dets ELSE SubSeq(dets, 1, bad - 1)
             acc == FilterLoop([candidates |-> << >>, total_roi_pass |-> total_roi_pass,
                                total_roi_conf_pass |-> total_roi_conf_pass,
                                discarded_by_roi |-> discarded_by_roi,
                                discarded_by_conf |-> discarded_by_conf],
                               read, 1, frame_index, timestamp_s, poly, args)
             st == AssocLoop([active |-> active, next_track_id |-> next_track_id,
                              matched |-> {}],
                             acc.candidates, 1, frame_index, timestamp_s, args)
         IN  /\ obj' = line
             /\ total_frames' = total_frames + 1
             /\ fps_used' = fps.fps
             /\ fps_source' = fps.source
             /\ video_filename' = vf
             /\ width' = w
             /\ height' = h
             /\ IF h = None
                  THEN /\ SchemaError(line_no')
                       /\ UNCHANGED <<stream, total_whitelist, total_roi_pass,
                                      total_roi_conf_pass, discarded_by_roi,
                                      discarded_by_conf, active, finished,
                                      next_track_id, matched_track_ids>>
                  ELSE /\ total_whitelist' = total_whitelist + Len(dets)
                       /\ total_roi_pass' = acc.total_roi_pass
                       /\ total_roi_conf_pass' = acc.total_roi_conf_pass
                       /\ discarded_by_roi' = acc.discarded_by_roi
                       /\ discarded_by_conf' = acc.discarded_by_conf
                       /\ IF bad # 0
                            THEN /\ SchemaError(line_no')
                                 /\ UNCHANGED <<stream, active, finished,
                                                next_track_id, matched_track_ids>>
                            ELSE /\ UNCHANGED <<pc, error>>
                                 /\ stream' = Append(stream, line)
                                 /\ matched_track_ids' = st.matched
                                 /\ next_track_id' = st.next_track_id
                                 /\ active' = StillActive(st.active, st.matched,
                                                          args.gap_frames)
                                 /\ finished' = finished \o
                                        NewlyFinished(st.active, st.matched,
                                                      args.gap_frames)

\* Only the Tracks matched on the last frame are flushed.
FlushMutant(fin, act) == fin \o SelectSeq(act, LAMBDA t : t.missed = 0)

\* `finished.extend(active)`
Flush(fin, act) == fin \o act

\* End of the stream: flush the active tracks, synthesise the events, write
\* events.csv, events.json and metrics.json.
Finish ==
    /\ pc = "run"
    /\ pc' = "done"
    /\ finished' = Flush(finished, active)
    /\ events' = MakeEvents(finished')
    /\ metrics' = Some([video_filename |-> video_filename,
                        frame_size |-> <<width, height>>,
                        total_frames |-> total_frames,
                        fps_used_for_timestamps |-> fps_used,
                        fps_source_key |-> fps_source,
                        total_whitelist_detections |-> total_whitelist,
                        total_roi_pass_detections |-> total_roi_pass,
                        total_roi_conf_pass_detections |-> total_roi_conf_pass,
                        discarded_by_roi |-> discarded_by_roi,
                        discarded_by_conf |-> discarded_by_conf,
                        tracks_total |-> Len(finished'),
                        tracks_confirmed |-> TracksConfirmed(finished'),
                        total_events |-> Len(events'),
                        no_event_diagnostics |->
                            NoEventDiag(events', finished', total_roi_conf_pass, args)])
    /\ outputs' = outputs \cup ResultFiles
    /\ UNCHANGED <<args, poly, out_dir, line_no, error, obj, fps_used, fps_source,
                   video_filename, width, height, total_frames, total_whitelist,
                   total_roi_pass, total_roi_conf_pass, discarded_by_roi,
                   discarded_by_conf, active, next_track_id, matched_track_ids,
                   stream, lines>>

----------------------------------------------------------------------------
\* Inputs

Det(cls, conf, box) ==
    [class_name |-> cls, confidence |-> conf,
     x1 |-> box[1], y1 |-> box[2], x2 |-> box[3], y2 |-> box[4]]

\* All lists of at most n different elements of S (a detector does not give
\* the same box, class and confidence twice in a frame).
RECURSIVE ListsUpTo(_, _)
ListsUpTo(S, n) ==
    IF n = 0 THEN {<< >>}
    ELSE LET shorter == ListsUpTo(S, n - 1)
             longest == {x \in shorter : Len(x) = n - 1}
         IN  shorter \cup
             UNION {{Append(l, d) : d \in S \ {l[i] : i \in 1..Len(l)}} : l \in longest}

\* The frame index of the last record read (-1 before the first).
LastFrameIndex == obj.frame_index

\* ROI polygons: a square, and a triangle.
SquareRoi == <<<<0, 0>>, <<8, 0>>, <<8, 8>>, <<0, 8>>>>
TriangleRoi == <<<<0, 0>>, <<8, 0>>, <<0, 8>>>>

\* Boxes: P and Q have centers (2, 2) and (3, 2), one pixel apart, inside
\* both polygons; R has center (6, 6), inside the square only; O has center
\* (10, 2), outside both.
BoxP == <<1, 1, 3, 3>>
BoxQ == <<2, 1, 4, 3>>
BoxR == <<5, 5, 7, 7>>
BoxO == <<9, 1, 11, 3>>

\* S has center (4, 2): one pixel from Q, two from P.
BoxS == <<3, 1, 5, 3>>

Args(track_mode, persist_mode, n_consec, hits, window, gap_frames, dist_px) ==
    [conf |-> 50, dist_px |-> dist_px, gap_frames |-> gap_frames,
     track_mode |-> track_mode, persist_mode |-> persist_mode,
     n_consec |-> n_consec, hits |-> hits, window |-> window, out |-> None]

\* A record as offline_infer writes it: every key on every record.
Record(frame_index, timestamp_s, detections) ==
    [video_filename |-> Some("clip.mp4"), width |-> Some(16), height |-> Some(16),
     frame_index |-> frame_index, timestamp_s |-> timestamp_s,
     detections |-> detections,
     fps_used_for_timestamps |-> Some(30), fps_reported |-> Some(30)]

\* The records that may follow the last one read: the frame index grows by
\* a step of `steps` (the stream starts at frame 0 or 1), the timestamp is
\* the frame index (offline_infer writes frame_index / fps), the detections
\* are one of `lists`.
RecordsFrom(steps, lists) ==
    {Record(LastFrameIndex + s, LastFrameIndex + s, ds) : s \in steps, ds \in lists}

\* Tracking runs, consecutive persistence: every detection passes the ROI
\* and the confidence floor; P and Q are within dist_px of each other.
TrackDets == {Det("cup", 90, BoxP), Det("bottle", 50, BoxQ)}

ConsecConfigs ==
    {Args(tm, "consecutive", n, 2, 10, g, 1) :
        tm \in {"class", "any"}, n \in {1, 2}, g \in {0, 1}}

Init == InitWith(ConsecConfigs, {SquareRoi})

ReadFrame == \E rec \in RecordsFrom({1, 2}, ListsUpTo(TrackDets, MaxDets)) : ProcessFrame(rec)

Next == ReadFrame \/ Finish

Spec == Init /\ [][Next]_vars

\* Tracking runs, window persistence.
WindowConfigs ==
    {Args(tm, "window", 3, h, w, g, 1) :
        tm \in {"class", "any"}, h \in {2}, w \in {2, 3}, g \in {0, 1}}

InitWindow == InitWith(WindowConfigs, {SquareRoi})

SpecWindow == InitWindow /\ [][Next]_vars

\* Filter runs: at most one detection per record, inside or outside the
\* ROI, below, at or above the confidence floor (50).  R is inside the
\* square and outside the triangle.
FilterDets ==
    {Det("cup", 50, BoxP), Det("cup", 90, BoxR), Det("bottle", 40, BoxP), Det("bottle", 40, BoxO)}

FilterConfigs == {Args("class", "consecutive", 1, 2, 10, 0, 1)}

InitFilter == InitWith(FilterConfigs, {SquareRoi, TriangleRoi})

ReadFilterFrame == \E rec \in RecordsFrom({1}, ListsUpTo(FilterDets, 1)) : ProcessFrame(rec)

NextFilter == ReadFilterFrame \/ Finish

SpecFilter == InitFilter /\ [][NextFilter]_vars

\* Timing runs: validate_frame_obj checks neither the order of the frame
\* indices nor that of the timestamps, so both are free.
TimeDets == {Det("cup", 90, BoxP)}

TimeConfigs ==
    {Args("class", "consecutive", n, 2, 10, 1, 1) : n \in {1, 2}}
    \cup {Args("class", "window", 3, 2, 3, 1, 1)}

FrameValues == {0, 1}
TimeValues == {0, 1, 2}

InitTime == InitWith(TimeConfigs, {SquareRoi})

ReadTimedFrame ==
    \E f \in FrameValues, ts \in TimeValues, ds \in ListsUpTo(TimeDets, 1) :
        ProcessFrame(Record(f, ts, ds))

NextTime == ReadTimedFrame \/ Finish

SpecTime == InitTime /\ [][NextTime]_vars

\* Scenario runs: at most one detection per record, the same object seen
\* with two confidences, N_CONSEC up to the number of records.
ScenarioDets == {Det("cup", 60, BoxP), Det("cup", 90, BoxP), Det("bottle", 50, BoxQ)}

ScenarioConfigs ==
    {Args(tm, "consecutive", n, 2, 10, g, 1) :
        tm \in {"class", "any"}, n \in {1, 2, 3}, g \in {0, 1}}

InitScenario == InitWith(ScenarioConfigs, {SquareRoi})

ReadScenarioFrame == \E rec \in RecordsFrom({1, 2}, ListsUpTo(ScenarioDets, 1)) : ProcessFrame(rec)

NextScenario == ReadScenarioFrame \/ Finish

SpecScenario == InitScenario /\ [][NextScenario]_vars

\* Schema runs: lines of every kind main tells apart.  A record may lack a
\* key or carry a null; a list of detections may hold an entry that is not
\* an object or lacks a key.
Without(rec, k) == [x \in DOMAIN rec \ {k} |-> rec[x]]

KeylessDet == Without(Det("cup", 90, BoxP), "y2")

SchemaEntries == {Det("cup", 90, BoxP), NotADet, KeylessDet}

SchemaConfigs == {Args("class", "consecutive", 2, 2, 10, 0, 1)}

\* The lines that may follow the last record read.
SchemaLines ==
    LET f == LastFrameIndex + 1
        R == Record(f, f, <<Det("cup", 90, BoxP)>>)
    IN  {BlankLine, InvalidJson, NotADict}
        \cup {Record(f, f, ds) : ds \in ListsUpTo(SchemaEntries, MaxDets)}
        \cup {Without(R, k) : k \in DOMAIN R}
        \cup {Without(Without(R, "fps_used_for_timestamps"), "fps_reported"),
              [R EXCEPT !.fps_used_for_timestamps = None],
              [R EXCEPT !.fps_used_for_timestamps = None, !.fps_reported = None],
              [R EXCEPT !.video_filename = None],
              [R EXCEPT !.detections = NotAList]}

InitSchema == InitWith(SchemaConfigs, {SquareRoi})

ReadLine == \E line \in SchemaLines : ProcessFrame(line)

NextSchema == ReadLine \/ Finish

SpecSchema == InitSchema /\ [][NextSchema]_vars

\* ROI runs: the run from before load_roi, with ROI documents that hold a
\* square, two vertices only, no vertex, or no `polygon` key.
SegmentRoi == <<<<0, 0>>, <<8, 8>>>>

RoiDocs ==
    {[roi_id |-> "roi_1", polygon |-> SquareRoi],
     [polygon |-> SegmentRoi],
     [roi_id |-> "roi_1", polygon |-> << >>],
     [roi_id |-> "roi_1"]}

RoiDets == {Det("cup", 90, BoxP), Det("cup", 90, BoxO)}

InitRoi == InitStart(FilterConfigs)

Start == \E roi \in RoiDocs : LoadRoi(roi)

ReadRoiFrame == \E rec \in RecordsFrom({1}, ListsUpTo(RoiDets, MaxDets)) : ProcessFrame(rec)

NextRoi == Start \/ ReadRoiFrame \/ Finish

SpecRoi == InitRoi /\ [][NextRoi]_vars

\* Valid runs to the end: blank lines and valid records only, with no
\* detection, one inside the ROI above the floor, one outside the ROI.  The
\* loop is sequential and the file is finite: a step that can be taken is
\* taken.
LiveDets == {Det("cup", 90, BoxP), Det("bottle", 40, BoxO)}

LiveConfigs == {Args("class", "consecutive", n, 2, 10, 0, 1) : n \in {1, 3}}

InitLive == InitWith(LiveConfigs, {SquareRoi})

ReadValidLine ==
    \E line \in {BlankLine} \cup RecordsFrom({1}, ListsUpTo(LiveDets, MaxDets)) :
        ProcessFrame(line)

NextLive == ReadValidLine \/ Finish

SpecLive == InitLive /\ [][NextLive]_vars /\ WF_vars(NextLive)

\* Crowded runs: consecutive frames, up to MaxDets detections of TrackDets
\* on each, one Track for both in `any` mode, N_CONSEC = 3.
CrowdConfigs == {Args("any", "consecutive", 3, 2, 10, g, 1) : g \in {0, 1}}

InitCrowd == InitWith(CrowdConfigs, {SquareRoi})

ReadCrowdFrame == \E rec \in RecordsFrom({1}, ListsUpTo(TrackDets, MaxDets)) : ProcessFrame(rec)

NextCrowd == ReadCrowdFrame \/ Finish

SpecCrowd == InitCrowd /\ [][NextCrowd]_vars

\* Tie runs: three cups in a row, one pixel between neighbours, dist_px = 1:
\* the middle one is as near to a Track on its left as to one on its right.
\* At most two of them on a frame.
TieDets == {Det("cup", 90, BoxP), Det("cup", 90, BoxQ), Det("cup", 90, BoxS)}

TieConfigs == {Args("class", "consecutive", 2, 2, 10, 1, 1)}

InitTie == InitWith(TieConfigs, {SquareRoi})

ReadTieFrame == \E rec \in RecordsFrom({1}, ListsUpTo(TieDets, 2)) : ProcessFrame(rec)

NextTie == ReadTieFrame \/ Finish

SpecTie == InitTie /\ [][NextTie]_vars

\* Latch runs: both persistence modes with a threshold of 2, a gap
\* tolerance of 1 and frame steps of 1 or 2, so that a confirmed Track
\* lives on through a miss and is hit again.
LatchConfigs ==
    {Args("class", "consecutive", 2, 2, 10, 1, 1), Args("class", "window", 3, 2, 2, 1, 1)}

InitLatch == InitWith(LatchConfigs, {SquareRoi})

ReadLatchFrame == \E rec \in RecordsFrom({1, 2}, ListsUpTo(TrackDets, MaxDets)) : ProcessFrame(rec)

NextLatch == ReadLatchFrame \/ Finish

SpecLatch == InitLatch /\ [][NextLatch]_vars

\* Window runs. Two hits within three frames, or one hit within two: the
\* confirming window can be longer than the life of the Track. Two hits
\* within two frames: a Track hit on frames 0, 2 and 3 starts at frame 2.
\* Frame indices grow by 1 or 2.
BackdateConfigs ==
    {Args("class", "window", 3, 2, 3, 1, 1), Args("any", "window", 3, 1, 2, 1, 1),
     Args("class", "window", 3, 2, 2, 1, 1)}

InitBackdate == InitWith(BackdateConfigs, {SquareRoi})

ReadBackdateFrame ==
    \E rec \in RecordsFrom({1, 2}, ListsUpTo(TrackDets, 2)) : ProcessFrame(rec)

NextBackdate == ReadBackdateFrame \/ Finish

SpecBackdate == InitBackdate /\ [][NextBackdate]_vars

\* Counting runs: up to two detections on a frame out of a cup and a bottle
\* one pixel apart inside the ROI and a cup outside it; in `any` mode the
\* two inside share a Track.
CountDets == {Det("cup", 90, BoxP), Det("bottle", 50, BoxQ), Det("cup", 90, BoxO)}

CountConfigs == {Args(tm, "consecutive", 2, 2, 10, 0, 1) : tm \in {"class", "any"}}

InitCount == InitWith(CountConfigs, {SquareRoi})

ReadCountFrame == \E rec \in RecordsFrom({1}, ListsUpTo(CountDets, 2)) : ProcessFrame(rec)

NextCount == ReadCountFrame \/ Finish

SpecCount == InitCount /\ [][NextCount]_vars

----------------------------------------------------------------------------
\* Notions the properties are stated with.

\* Every Track of the run (at the end `finished` holds them all).
Tracks == IF pc = "done" THEN finished ELSE finished \o active

TrackIds(ts) == {ts[i].track_id : i \in 1..Len(ts)}
TrackOf(ts, id) == ts[CHOOSE i \in 1..Len(ts) : ts[i].track_id = id]

\* A step that processes one record.
FrameStep == pc = "run" /\ pc' = "run" /\ total_frames' = total_frames + 1

----------------------------------------------------------------------------
\* C1 -- the emitted events are in non-decreasing order of
\* (start_frame, class_name, end_frame, rep_frame), and the i-th event
\* carries the id "ev_" followed by i zero-padded to 4 digits: ids follow
\* the sort position, not the track ids or the order of finishing.

\* Tuples compared as the spec states them, class names by their rank.
SortKey(e) == <<e.start_frame, ClassRank(e.class_name), e.end_frame, e.rep_frame>>

RECURSIVE TupleLeq(_, _)
TupleLeq(k1, k2) ==
    \/ k1 = << >>
    \/ Head(k1) < Head(k2)
    \/ Head(k1) = Head(k2) /\ TupleLeq(Tail(k1), Tail(k2))

\* The number a list of decimal digits writes.
RECURSIVE DigitsValue(_)
DigitsValue(ds) ==
    IF ds = << >> THEN 0
    ELSE 10 * DigitsValue(SubSeq(ds, 1, Len(ds) - 1)) + ds[Len(ds)]

C1_SortedWithSequentialIds ==
    pc = "done" =>
        /\ \A i \in 1..(Len(events) - 1) :
               TupleLeq(SortKey(events[i]), SortKey(events[i + 1]))
        /\ \A i \in 1..Len(events) :
               /\ events[i].event_id.prefix = "ev_"
               /\ Len(events[i].event_id.digits) = 4
               /\ \A k \in 1..4 : events[i].event_id.digits[k] \in 0..9
               /\ DigitsValue(events[i].event_id.digits) = i

\* Two events whose order of finishing is not their sorted order.
C1_Witness ==
    /\ pc = "done"
    /\ Len(events) >= 2
    /\ LET raw == RawEvents(finished)
       IN  ~TupleLeq(SortKey(raw[1]), SortKey(raw[2]))

----------------------------------------------------------------------------
\* C2 -- consecutive mode, threshold N >= 1: a Track is confirmed in exactly
\* the frame in which its streak of consecutive hits first reaches N (not
\* before, not on a later update), with confirmed_at_frame that frame and
\* confirmed_start_frame = confirmed_at_frame - (N - 1).
\* Read at the end of each processed frame: max_hits_consec is the longest
\* streak the Track has reached so far.

\* The Track `id` had reached the streak N in the list of tracks ts.
ReachedN(ts, id) ==
    id \in TrackIds(ts) /\ TrackOf(ts, id).max_hits_consec >= args.n_consec

C2_FrameRule(old, new, frame_index) ==
    \A id \in TrackIds(new) :
        LET t == TrackOf(new, id)
        IN  IF ReachedN(old, id)
              THEN /\ t.confirmed_at_frame = TrackOf(old, id).confirmed_at_frame
                   /\ t.confirmed_start_frame = TrackOf(old, id).confirmed_start_frame
              ELSE IF t.max_hits_consec >= args.n_consec
                THEN /\ t.confirmed_at_frame = Some(frame_index)
                     /\ t.confirmed_start_frame = Some(frame_index - (args.n_consec - 1))
                ELSE /\ t.confirmed_at_frame = None
                     /\ t.confirmed_start_frame = None

C2_ConsecutiveConfirmsAtNthHit ==
    [][(FrameStep /\ args.persist_mode = "consecutive") =>
          C2_FrameRule(finished \o active, finished' \o active', obj'.frame_index)]_vars

\* A Track confirmed on a streak that started after its first hit (the
\* streak was reset once), with N = 2.
C2_Witness ==
    /\ args.persist_mode = "consecutive"
    /\ args.n_consec = 2
    /\ \E i \in 1..Len(Tracks) :
          /\ Tracks[i].confirmed_at_frame # None
          /\ Val(Tracks[i].confirmed_start_frame) > Tracks[i].start_frame
          /\ Val(Tracks[i].confirmed_at_frame) = Val(Tracks[i].confirmed_start_frame) + 1

----------------------------------------------------------------------------
\* C4 -- a Track is moved from active to finished at the end of exactly the
\* (gap_frames+1)-th consecutive processed frame in which it got no hit (it
\* stays active through the first gap_frames such frames); a finished Track
\* is never matched or changed again, and a candidate that arrives later at
\* its position, with its class, goes to a Track with a new track_id.

\* The number of records read, up to the n-th, since the last hit of t (the
\* frame indices of a stream grow, and a hit sets end_frame).
MissesSince(t, strm) ==
    Cardinality({i \in 1..Len(strm) : strm[i].frame_index > t.end_frame})

C4_FrameRule ==
    /\ \A i \in 1..Len(active') :
           MissesSince(active'[i], stream') <= args.gap_frames
    /\ \A i \in (Len(finished) + 1)..Len(finished') :
           /\ MissesSince(finished'[i], stream') = args.gap_frames + 1
           /\ finished'[i].track_id \in TrackIds(active) \cup matched_track_ids'
    /\ Len(finished') >= Len(finished)
    /\ SubSeq(finished', 1, Len(finished)) = finished
    /\ matched_track_ids' \cap TrackIds(finished) = {}
    /\ \A id \in TrackIds(finished' \o active') :
           id \in TrackIds(finished \o active) \/ (id >= next_track_id /\ id < next_track_id')
    /\ Len(finished' \o active') = Cardinality(TrackIds(finished' \o active'))

C4_FinishedAfterGapPlusOneMisses == [][FrameStep => C4_FrameRule]_vars

\* A Track finished by the gap rule, and a later hit of its class at its
\* position in an active Track with another track_id.
C4_Witness ==
    /\ pc = "run"
    /\ \E i \in 1..Len(finished), j \in 1..Len(active) :
          /\ finished[i].missed = args.gap_frames + 1
          /\ active[j].last_center = finished[i].last_center
          /\ active[j].rep_class_name = finished[i].rep_class_name
          /\ active[j].track_id > finished[i].track_id
          /\ active[j].start_frame > finished[i].end_frame

----------------------------------------------------------------------------
\* C9 -- track-mode "class": a candidate never updates a Track whose
\* representative class is not its own, so all the hits of a Track have one
\* class, and two detections of one frame with different classes are in
\* two different Tracks, however close they are.

C9_ClassModeKeepsClassesApart ==
    args.track_mode = "class" =>
        \A i \in 1..Len(Tracks) :
            \A k \in 1..Len(Tracks[i].members) :
                Tracks[i].members[k].class_name = Tracks[i].rep_class_name

\* Two Tracks of different classes hit in the same frame, their centers
\* within dist_px of each other.
C9_Witness ==
    /\ args.track_mode = "class"
    /\ \E i, j \in 1..Len(Tracks) :
          /\ Tracks[i].rep_class_name # Tracks[j].rep_class_name
          /\ Tracks[i].end_frame = Tracks[j].end_frame
          /\ Tracks[i].hits_total >= 2
          /\ DistLeq(Tracks[i].last_center, Tracks[j].last_center, args.dist_px)

----------------------------------------------------------------------------
\* C3 -- window mode, hit threshold H, window size W: a Track is confirmed
\* on exactly the first frame f at which the number of its hits (entries of
\* hit_frames) in the trailing window [f - (W - 1), f] reaches H, and
\* confirmed_start_frame is then the smallest hit frame in that window.

\* The hits of t in the window that ends at frame f.
HitsInWindow(t, f) ==
    {k \in 1..Len(t.hit_frames) :
        t.hit_frames[k] >= f - (args.window - 1) /\ t.hit_frames[k] <= f}

C3_FrameRule(old, new, f) ==
    \A id \in TrackIds(new) :
        LET t == TrackOf(new, id)
            w == HitsInWindow(t, f)
        IN  IF id \in TrackIds(old) /\ TrackOf(old, id).confirmed_at_frame # None
              THEN /\ t.confirmed_at_frame = TrackOf(old, id).confirmed_at_frame
                   /\ t.confirmed_start_frame = TrackOf(old, id).confirmed_start_frame
              ELSE IF t.end_frame = f /\ Cardinality(w) >= args.hits
                THEN /\ t.confirmed_at_frame = Some(f)
                     /\ \E k \in w : t.confirmed_start_frame = Some(t.hit_frames[k])
                     /\ \A k \in w : Val(t.confirmed_start_frame) <= t.hit_frames[k]
                ELSE /\ t.confirmed_at_frame = None
                     /\ t.confirmed_start_frame = None

C3_WindowConfirmsAtHthHit ==
    [][(FrameStep /\ args.persist_mode = "window") =>
          C3_FrameRule(finished \o active, finished' \o active', obj'.frame_index)]_vars

\* A Track confirmed by two hits two frames apart (W = 3), the frame
\* between them read without a hit.
C3_Witness ==
    /\ args.persist_mode = "window"
    /\ args.window = 3
    /\ \E i \in 1..Len(Tracks) :
          /\ Tracks[i].confirmed_at_frame # None
          /\ Tracks[i].hit_frames = <<Val(Tracks[i].confirmed_start_frame),
                                      Val(Tracks[i].confirmed_at_frame)>>
          /\ Val(Tracks[i].confirmed_at_frame) = Val(Tracks[i].confirmed_start_frame) + 2
          /\ total_frames = 3

----------------------------------------------------------------------------
\* Detections of the stream, and the ROI as a region of the plane.

RECURSIVE Flatten(_)
Flatten(strm) ==
    IF strm = << >> THEN << >> ELSE strm[1].detections \o Flatten(Tail(strm))

StreamDets == Flatten(stream)

RECURSIVE SumHitsTotal(_)
SumHitsTotal(ts) == IF ts = << >> THEN 0 ELSE ts[1].hits_total + SumHitsTotal(Tail(ts))

\* The side of the line p1 -> p2 on which c lies (> 0: left, < 0: right).
Cross(p1, p2, c) ==
    (p2[1] - p1[1]) * (c[2] - p1[2]) - (p2[2] - p1[2]) * (c[1] - p1[1])

\* c (in half pixels) is strictly outside the convex polygon pl, whose
\* vertices turn left: it is strictly to the right of one of the edges.
StrictlyOutside(c, pl) ==
    \E i \in 1..Len(pl) :
        Cross(HalfPx(pl)[i], HalfPx(pl)[(i % Len(pl)) + 1], c) < 0

DetCenter(d) == <<d.x1 + d.x2, d.y1 + d.y2>>
BoxCenter(b) == <<b[1] + b[3], b[2] + b[4]>>

\* C5 -- a detection whose center is outside the ROI polygon never becomes
\* a candidate, whatever its confidence: it adds no hit to any Track, spawns
\* no Track, appears in no event; it only increments discarded_by_roi.
C5_OutsideRoiNeverContributes ==
    LET outs == {k \in 1..Len(StreamDets) : StrictlyOutside(DetCenter(StreamDets[k]), poly)}
        hits == {k \in 1..Len(StreamDets) :
                    /\ ~StrictlyOutside(DetCenter(StreamDets[k]), poly)
                    /\ StreamDets[k].confidence >= args.conf}
    IN  /\ discarded_by_roi = Cardinality(outs)
        /\ total_roi_pass = Len(StreamDets) - Cardinality(outs)
        /\ SumHitsTotal(Tracks) = Cardinality(hits)
        /\ next_track_id - 1 <= Cardinality(hits)
        /\ \A i \in 1..Len(Tracks) :
               /\ \A k \in 1..Len(Tracks[i].members) :
                      ~StrictlyOutside(Tracks[i].members[k].center_xy, poly)
               /\ ~StrictlyOutside(BoxCenter(Tracks[i].rep_bbox), poly)
        /\ \A i \in 1..Len(events) :
               ~StrictlyOutside(BoxCenter(events[i].representative_bbox), poly)

\* A run that ended with an event, after a detection of confidence 90 was
\* discarded because its center is outside the (triangle) ROI.
C5_Witness ==
    /\ pc = "done"
    /\ Len(events) >= 1
    /\ discarded_by_roi >= 1
    /\ \E k \in 1..Len(StreamDets) :
          /\ StreamDets[k].confidence = 90
          /\ StrictlyOutside(DetCenter(StreamDets[k]), poly)

----------------------------------------------------------------------------
\* C6 -- every detection whose confidence is strictly below the floor is
\* counted in discarded_by_conf and never contributes a hit; a confidence
\* equal to the floor passes.

\* As stated: all the detections below the floor are counted.
C6_AsStated ==
    /\ discarded_by_conf =
           Cardinality({k \in 1..Len(StreamDets) : StreamDets[k].confidence < args.conf})
    /\ \A i \in 1..Len(Tracks) : \A k \in 1..Len(Tracks[i].members) :
           Tracks[i].members[k].confidence >= args.conf

\* As the code has it: the ROI test comes first, and discarded_by_conf
\* counts the detections below the floor among those that passed it.
C6_BelowFloorInsideRoiCounted ==
    /\ discarded_by_conf =
           Cardinality({k \in 1..Len(StreamDets) :
                           /\ StreamDets[k].confidence < args.conf
                           /\ ~StrictlyOutside(DetCenter(StreamDets[k]), poly)})
    /\ \A i \in 1..Len(Tracks) : \A k \in 1..Len(Tracks[i].members) :
           Tracks[i].members[k].confidence >= args.conf
    /\ SumHitsTotal(Tracks) =
           Cardinality({k \in 1..Len(StreamDets) :
                           /\ StreamDets[k].confidence >= args.conf
                           /\ ~StrictlyOutside(DetCenter(StreamDets[k]), poly)})

\* A detection below the floor inside the ROI was discarded, one below the
\* floor outside the ROI was read, and one at the floor became a hit.
C6_Witness ==
    /\ discarded_by_conf >= 1
    /\ \E k \in 1..Len(StreamDets) :
          /\ StreamDets[k].confidence < args.conf
          /\ StrictlyOutside(DetCenter(StreamDets[k]), poly)
    /\ \E i \in 1..Len(Tracks) : \E k \in 1..Len(Tracks[i].members) :
          Tracks[i].members[k].confidence = args.conf

----------------------------------------------------------------------------
\* C7 -- for every event emitted by a run over a stream that the frame
\* validator accepts, start_time_s <= end_time_s, and duration_s is exactly
\* end_time_s - start_time_s and is >= 0.

EventTimesConsistent(e) ==
    /\ e.start_time_s <= e.end_time_s
    /\ e.duration_s = e.end_time_s - e.start_time_s
    /\ e.duration_s >= 0

\* As stated: for every stream of valid records.
C7_AsStated ==
    pc = "done" => \A i \in 1..Len(events) : EventTimesConsistent(events[i])

\* timestamp_s does not decrease from one record to the next.
TimestampsNonDecreasing(strm) ==
    \A i \in 1..(Len(strm) - 1) : strm[i].timestamp_s <= strm[i + 1].timestamp_s

\* For the streams whose timestamps do not decrease (whatever the frame
\* indices).
C7_EventTimesOnOrderedStream ==
    (pc = "done" /\ TimestampsNonDecreasing(stream)) =>
        \A i \in 1..Len(events) : EventTimesConsistent(events[i])

\* An event of positive duration, of a stream with non-decreasing
\* timestamps whose frame indices are not increasing.
C7_Witness ==
    /\ pc = "done"
    /\ TimestampsNonDecreasing(stream)
    /\ \E i \in 1..(Len(stream) - 1) : stream[i].frame_index >= stream[i + 1].frame_index
    /\ \E i \in 1..Len(events) : events[i].duration_s > 0

----------------------------------------------------------------------------
\* C10 -- consecutive mode, N = N_CONSEC >= 1: if the stream is N records
\* of consecutive frames f, .., f+N-1, each holding exactly one detection
\* that passes the ROI and the floor, all of one class at one position, the
\* run emits exactly one event, with start_frame = f, end_frame = f+N-1,
\* that class, and the largest of the confidences as max_confidence.

SameObjectOnNFrames(strm) ==
    /\ Len(strm) = args.n_consec
    /\ \A i \in 1..Len(strm) :
          /\ strm[i].frame_index = strm[1].frame_index + (i - 1)
          /\ Len(strm[i].detections) = 1
          /\ strm[i].detections[1].confidence >= args.conf
          /\ ~StrictlyOutside(DetCenter(strm[i].detections[1]), poly)
          /\ strm[i].detections[1].class_name = strm[1].detections[1].class_name
          /\ DetCenter(strm[i].detections[1]) = DetCenter(strm[1].detections[1])

C10_OneEventForNConsecutiveFrames ==
    (pc = "done" /\ args.persist_mode = "consecutive" /\ SameObjectOnNFrames(stream)) =>
        /\ Len(events) = 1
        /\ events[1].start_frame = stream[1].frame_index
        /\ events[1].end_frame = stream[1].frame_index + args.n_consec - 1
        /\ events[1].class_name = stream[1].detections[1].class_name
        /\ \E i \in 1..Len(stream) :
               events[1].max_confidence = stream[i].detections[1].confidence
        /\ \A i \in 1..Len(stream) :
               events[1].max_confidence >= stream[i].detections[1].confidence

\* The scenario with N = 3, starting at frame 1, the confidences 60, 90, 60.
C10_Witness ==
    /\ pc = "done"
    /\ args.n_consec = 3
    /\ SameObjectOnNFrames(stream)
    /\ stream[1].frame_index = 1
    /\ stream[1].detections[1].confidence = 60
    /\ stream[2].detections[1].confidence = 90
    /\ stream[3].detections[1].confidence = 60
    /\ Len(events) = 1

----------------------------------------------------------------------------
\* C11 -- when no Track reaches the persistence threshold the run ends with
\* zero events, and the metrics carry the zero-event diagnostic, whose
\* max_hits_consec_over_tracks is the longest consecutive-hit streak reached
\* by any Track of the run (1 for one detection on one frame with
\* N_CONSEC = 3, 0 without any Track); the diagnostic is present exactly
\* when the event list is empty.

\* The length of the run of hits on successive frames that starts at the
\* i-th hit.
RECURSIVE RunFrom(_, _)
RunFrom(hit_frames, i) ==
    IF i < Len(hit_frames) /\ hit_frames[i + 1] = hit_frames[i] + 1
      THEN 1 + RunFrom(hit_frames, i + 1)
      ELSE 1

\* The longest streak over the Tracks ts.
LongestStreak(ts) ==
    LET S == UNION {{RunFrom(ts[k].hit_frames, i) : i \in 1..Len(ts[k].hit_frames)} :
                       k \in 1..Len(ts)} \cup {0}
    IN  CHOOSE m \in S : \A x \in S : x <= m

C11_ZeroEventDiagnostic ==
    pc = "done" =>
        LET diag == Val(metrics).no_event_diagnostics
        IN  /\ diag # None <=> events = << >>
            /\ LongestStreak(Tracks) < args.n_consec => events = << >>
            /\ events = << >> =>
                   Val(diag).max_hits_consec_over_tracks = LongestStreak(Tracks)

\* One detection on one frame with N_CONSEC = 3: no event, a streak of 1.
C11_Witness ==
    /\ pc = "done"
    /\ args.n_consec = 3
    /\ total_frames = 1
    /\ Len(finished) = 1
    /\ finished[1].hits_total = 1
    /\ events = << >>
    /\ metrics # None
    /\ Val(metrics).no_event_diagnostics # None
    /\ Val(Val(metrics).no_event_diagnostics).max_hits_consec_over_tracks = 1

----------------------------------------------------------------------------
\* C12 -- a schema violation at line k (a line that is not JSON, a
\* top-level value that is not an object, a record without frame_index,
\* timestamp_s or detections, detections that is not a list, a detection
\* that is not an object or lacks a required key) stops the run at line k
\* in an error state that names line k: no later line is read, the Tracks
\* (active and finished) are those left by line k - 1, and neither the
\* event list nor the metrics are produced.

DetViolation(d) ==
    \/ d = NotADet
    \/ \E k \in {"class_name", "confidence", "x1", "y1", "x2", "y2"} : k \notin DOMAIN d

SchemaViolation(line) ==
    /\ line # BlankLine
    /\ \/ line = InvalidJson
       \/ line = NotADict
       \/ \E k \in {"frame_index", "timestamp_s", "detections"} : k \notin DOMAIN line
       \/ line.detections = NotAList
       \/ \E i \in 1..Len(line.detections) : DetViolation(line.detections[i])

\* A step that reads one line.
LineStep == pc = "run" /\ line_no' = line_no + 1

NoResults ==
    /\ events = << >>
    /\ metrics = None
    /\ outputs \cap {"events.csv", "events.json", "metrics.json"} = {}

C12_LineRule ==
    /\ pc # "error"
    /\ LineStep /\ SchemaViolation(lines'[line_no']) =>
           /\ pc' = "error"
           /\ error' = Some(line_no')
           /\ Len(lines') = line_no'
           /\ active' = active
           /\ finished' = finished
           /\ NoResults'

C12_SchemaViolationStopsAtLine == [][C12_LineRule]_vars

\* Line 2 holds a valid detection followed by an entry that is not an
\* object: the run has stopped there with the Track of line 1.
C12_Witness ==
    /\ pc = "error"
    /\ error = Some(2)
    /\ Len(lines) = 2
    /\ "detections" \in DOMAIN lines[2]
    /\ Len(lines[2].detections) = 2
    /\ lines[2].detections[2] = NotADet
    /\ Len(active) = 1
    /\ active[1].hits_total = 1
    /\ total_whitelist = 3
    /\ NoResults

----------------------------------------------------------------------------
\* C13 -- an ROI whose polygon has fewer than 3 vertices makes the run
\* fail at ROI load time: once load_roi has been gone through the run is in
\* error, no frame has been processed, and neither events nor metrics are
\* produced.
C13_DegenerateRoiFailsAtLoad ==
    pc # "start" /\ Len(poly) < 3 =>
        /\ pc = "error"
        /\ total_frames = 0
        /\ NoResults

----------------------------------------------------------------------------
\* C14 -- for each record, the first or a later one, the frames-per-second
\* value is resolved from fps_used_for_timestamps when the record carries
\* it with a non-null value, else from fps_reported; a record with neither
\* makes the run fail with a schema error that names the record's line.

\* The value the two keys of a record give (None when they give none).
FpsOf(rec) ==
    IF "fps_used_for_timestamps" \in DOMAIN rec /\ rec.fps_used_for_timestamps # None
      THEN rec.fps_used_for_timestamps
    ELSE IF "fps_reported" \in DOMAIN rec /\ rec.fps_reported # None
      THEN rec.fps_reported
    ELSE None

C14_LineRule ==
    LET line == lines'[line_no']
    IN  LineStep /\ line # BlankLine /\ ~SchemaViolation(line) =>
            IF FpsOf(line) = None
              THEN pc' = "error" /\ error' = Some(line_no')
              ELSE fps_used' = FpsOf(line)

C14_FpsResolvedOnEveryRecord == [][C14_LineRule]_vars

----------------------------------------------------------------------------
\* C15 -- every finite stream of valid records (the empty stream, frames
\* without candidates and runs without a confirmed Track included) with a
\* valid ROI ends in success: the run never enters the error state, and it
\* reaches the end with events.csv, events.json and metrics.json written
\* under <run_folder>/events/<roi_id>.
Success ==
    /\ pc = "done"
    /\ error = None
    /\ metrics # None
    /\ {"events.csv", "events.json", "metrics.json"} \subseteq outputs
    /\ out_dir = <<"events", "roi_1">>

C15_ValidStreamEndsInSuccess == [](pc # "error") /\ <>Success

\* A run that ended in success without an event: a frame without
\* detections, and a Track that was never confirmed.
C15_Witness ==
    /\ Success
    /\ events = << >>
    /\ \E i \in 1..Len(stream) : stream[i].detections = << >>
    /\ \E i \in 1..Len(finished) : finished[i].confirmed_at_frame = None

----------------------------------------------------------------------------
\* C16 -- a Track is mutated at most once per frame: no Track receives two
\* hits in the candidate loop of one frame, so that hit_frames never holds
\* the same frame index twice and hits_total never exceeds the number of
\* frames on which the Track was matched.

\* The frames on which a Track was matched.
HitFrameSet(t) == {t.hit_frames[i] : i \in 1..Len(t.hit_frames)}

C16_OneHitPerFrame ==
    \A k \in 1..Len(Tracks) :
        LET t == Tracks[k]
        IN  /\ \A i, j \in 1..Len(t.hit_frames) :
                   i # j => t.hit_frames[i] # t.hit_frames[j]
            /\ t.hits_total <= Cardinality(HitFrameSet(t))

----------------------------------------------------------------------------
\* C17 -- in window mode with threshold H a Track is confirmed only when it
\* has hits on at least H different frame indices within one trailing
\* window of W frames: several candidates of one frame matched to the same
\* Track count as one hit frame, and cannot confirm it by themselves when
\* H >= 2.

\* The different frames of t hit in the window of W frames that ends at f.
DistinctHitsInWindow(t, f, W) == {x \in HitFrameSet(t) : f - (W - 1) <= x /\ x <= f}

C17_WindowNeedsDistinctFrames ==
    args.persist_mode = "window" =>
        \A k \in 1..Len(Tracks) :
            Tracks[k].confirmed_at_frame # None =>
                \E f \in HitFrameSet(Tracks[k]) :
                    Cardinality(DistinctHitsInWindow(Tracks[k], f, args.window)) >= args.hits

----------------------------------------------------------------------------
\* C18 -- in consecutive mode with threshold N >= 1 a Track with at least
\* one hit on each of N successive frames f .. f+N-1 is confirmed, and no
\* later than at its last hit on frame f+N-1, however many candidates were
\* matched to it on each of those frames.
C18_ConfirmedOnNSuccessiveFrames ==
    args.persist_mode = "consecutive" /\ args.n_consec >= 1 =>
        \A k \in 1..Len(Tracks) :
            \A f \in HitFrameSet(Tracks[k]) :
                (\A d \in 0..(args.n_consec - 1) : f + d \in HitFrameSet(Tracks[k])) =>
                    /\ Tracks[k].confirmed_at_frame # None
                    /\ Val(Tracks[k].confirmed_at_frame) <= f + args.n_consec - 1

----------------------------------------------------------------------------
\* C19 -- for each candidate, in candidate order: a new Track is spawned
\* if and only if no Track active at that moment (the Tracks spawned or
\* updated earlier in the same frame included) passes can_match for it;
\* otherwise the Track updated is one at the least distance from its last
\* center to the candidate among those passing can_match, and among
\* several at that distance the earliest of the active list, which has
\* the lowest track_id.

\* The candidates of a record: its detections inside the ROI, at or above
\* the floor.
CandidatesOf(rec) ==
    LET kept == SelectSeq(rec.detections,
                          LAMBDA d : PassesRoi(d, poly) /\ ~(d.confidence < args.conf))
    IN  [i \in 1..Len(kept) |-> Candidate(kept[i], rec.frame_index, rec.timestamp_s)]

\* The active lists of the candidate loop of a record: before the first
\* candidate, and after each one.
RECURSIVE ActiveLists(_, _, _, _)
ActiveLists(st, cands, i, rec) ==
    IF i > Len(cands) THEN <<st.active>>
    ELSE <<st.active>> \o
         ActiveLists(AssocStep(st, cands[i], rec.frame_index, rec.timestamp_s, args),
                     cands, i + 1, rec)

\* The rule for one candidate: act the active list before it, act2 after.
C19_CandidateRule(act, det, act2) ==
    LET M == {j \in 1..Len(act) : can_match(act[j], det, args)}
        D(j) == DistSq(act[j].last_center, det.center_xy)
    IN  IF M = {}
          THEN /\ Len(act2) = Len(act) + 1
               /\ \A j \in 1..Len(act) : act2[j] = act[j]
               /\ act2[Len(act2)].track_id \notin TrackIds(act)
               /\ act2[Len(act2)].hits_total = 1
          ELSE /\ Len(act2) = Len(act)
               /\ \E j \in M :
                      /\ \A k \in M : D(j) <= D(k)
                      /\ \A k \in M : D(k) = D(j) =>
                             j <= k /\ act[j].track_id <= act[k].track_id
                      /\ act2[j].hits_total = act[j].hits_total + 1
                      /\ act2[j].last_center = det.center_xy
                      /\ \A k \in 1..Len(act) : k # j => act2[k] = act[k]

C19_FrameRule ==
    FrameStep =>
        \A cands \in {CandidatesOf(obj')} :
        \A lists \in {ActiveLists([active |-> active, next_track_id |-> next_track_id,
                                   matched |-> {}], cands, 1, obj')} :
        \A last \in {lists[Len(lists)]} :
            /\ \A i \in 1..Len(cands) :
                   \A act \in {lists[i]}, act2 \in {lists[i + 1]} :
                       C19_CandidateRule(act, cands[i], act2)
            /\ Len(finished') + Len(active') = Len(finished) + Len(last)
            /\ \A k \in 1..Len(last) :
                   LET t == TrackOf(finished' \o active', last[k].track_id)
                   IN  [t EXCEPT !.missed = 0] = [last[k] EXCEPT !.missed = 0]

C19_NearestEarliestTrackIsUpdated == [][C19_FrameRule]_vars

\* Tracks 1 and 2 start on frame 0 at P and S; the cup at Q on frame 1, one
\* pixel from both, has gone to Track 1.
C19_Witness ==
    /\ Len(active) = 2
    /\ active[1].track_id = 1
    /\ active[2].track_id = 2
    /\ active[1].hit_frames = <<0, 1>>
    /\ active[2].hit_frames = <<0>>
    /\ active[1].members[1].center_xy = <<4, 4>>
    /\ active[1].last_center = <<6, 4>>
    /\ active[2].last_center = <<8, 4>>

----------------------------------------------------------------------------
\* C20 -- on a stream whose frame_index does not decrease, every Track has
\* start_frame <= rep_frame <= end_frame, after its creation and after
\* every update.
FrameIndexNonDecreasing ==
    \A i \in 1..(Len(stream) - 1) : stream[i].frame_index <= stream[i + 1].frame_index

C20_RepFrameWithinTrack ==
    FrameIndexNonDecreasing =>
        \A k \in 1..Len(Tracks) :
            /\ Tracks[k].start_frame <= Tracks[k].rep_frame
            /\ Tracks[k].rep_frame <= Tracks[k].end_frame

\* A Track whose representative was replaced after its first frame and
\* which was hit again later.
C20_Witness ==
    \E k \in 1..Len(Tracks) :
        /\ Tracks[k].start_frame < Tracks[k].rep_frame
        /\ Tracks[k].rep_frame < Tracks[k].end_frame

----------------------------------------------------------------------------
\* C21 -- confirmation is latched: once confirmed_at_frame and
\* confirmed_start_frame of a Track are set, no later update, miss, move to
\* finished or flush at the end of the stream changes or clears them, in
\* either persistence mode, also when hits_consec falls back to 1 or the
\* window holds fewer than H hits later on.
C21_StepRule ==
    \A ts \in {Tracks}, ts2 \in {Tracks'} :
        \A k \in 1..Len(ts) :
            ts[k].confirmed_at_frame # None =>
                /\ ts[k].track_id \in TrackIds(ts2)
                /\ ts[k].confirmed_start_frame # None
                /\ TrackOf(ts2, ts[k].track_id).confirmed_at_frame = ts[k].confirmed_at_frame
                /\ TrackOf(ts2, ts[k].track_id).confirmed_start_frame =
                       ts[k].confirmed_start_frame

----------------------------------------------------------------------------
\* C22 -- for every emitted event the representative frame lies inside the
\* frame range the event reports: start_frame <= rep_frame <= end_frame.
C22_EventRepFrameInRange ==
    pc = "done" =>
        \A i \in 1..Len(events) :
            /\ events[i].start_frame <= events[i].rep_frame
            /\ events[i].rep_frame <= events[i].end_frame

----------------------------------------------------------------------------
\* C23 -- the representative of a Track (max_confidence, rep_frame,
\* rep_bbox, rep_class_name) changes only on a hit of strictly greater
\* confidence: at every point max_confidence is the largest confidence of
\* the Track's members, and the representative is the earliest member that
\* has it.

\* The index of the earliest member of t with the largest confidence.
EarliestBest(t) ==
    CHOOSE i \in 1..Len(t.members) :
        /\ \A j \in 1..Len(t.members) : t.members[j].confidence <= t.members[i].confidence
        /\ \A j \in 1..(i - 1) : t.members[j].confidence < t.members[i].confidence

C23_RepresentativeIsEarliestMax ==
    \A ts \in {Tracks} :
        \A k \in 1..Len(ts) :
            \A m \in {ts[k].members[EarliestBest(ts[k])]} :
                /\ ts[k].max_confidence = m.confidence
                /\ ts[k].rep_frame = m.frame_index
                /\ ts[k].rep_bbox = m.bbox_xyxy
                /\ ts[k].rep_class_name = m.class_name

\* A Track with two members of the largest confidence on different frames,
\* after a member of a smaller one: the representative is the first of the
\* two.
C23_Witness ==
    \E k \in 1..Len(Tracks) :
        /\ Len(Tracks[k].members) = 3
        /\ Tracks[k].members[1].confidence = 60
        /\ Tracks[k].members[2].confidence = 90
        /\ Tracks[k].members[3].confidence = 90
        /\ Tracks[k].rep_frame = Tracks[k].members[2].frame_index
        /\ Tracks[k].rep_frame < Tracks[k].members[3].frame_index

----------------------------------------------------------------------------
\* C24 -- at the end of a completed run each finished Track with
\* confirmed_at_frame set yields exactly one event and each finished Track
\* without it yields none, so that total_events = tracks_confirmed; the
\* unconfirmed Tracks are counted too, so that tracks_total is the number
\* of Tracks created during the run.

\* What an event tells of the Track it was made from.
EventOfTrack(t) ==
    <<Val(t.confirmed_start_frame), t.end_frame, Val(t.confirmed_at_frame),
      t.rep_frame, t.rep_class_name, t.max_confidence, t.rep_bbox>>

EventAsTuple(e) ==
    <<e.start_frame, e.end_frame, e.trigger_frame,
      e.rep_frame, e.class_name, e.max_confidence, e.representative_bbox>>

ConfirmedIn(fin) == {k \in 1..Len(fin) : fin[k].confirmed_at_frame # None}

C24_OneEventPerConfirmedTrack ==
    pc = "done" =>
        \A conf \in {ConfirmedIn(finished)} :
            /\ Len(events) = Cardinality(conf)
            /\ \A k \in conf :
                   Cardinality({i \in 1..Len(events) :
                                    EventAsTuple(events[i]) = EventOfTrack(finished[k])})
                   = Cardinality({j \in conf :
                                    EventOfTrack(finished[j]) = EventOfTrack(finished[k])})
            /\ Val(metrics).total_events = Len(events)
            /\ Val(metrics).tracks_confirmed = Val(metrics).total_events
            /\ Val(metrics).tracks_total = next_track_id - 1
            /\ Val(metrics).tracks_total = Len(finished)
            /\ \A i, j \in 1..Len(finished) :
                   i # j => finished[i].track_id # finished[j].track_id

\* Two Tracks, one confirmed and one not: one event, tracks_total 2.
C24_Witness ==
    /\ pc = "done"
    /\ Len(finished) = 2
    /\ Cardinality(ConfirmedIn(finished)) = 1
    /\ Len(events) = 1
    /\ Val(metrics).tracks_total = 2
    /\ Val(metrics).tracks_confirmed = 1

----------------------------------------------------------------------------
\* C25 -- at the end of the stream every Track still active is moved to
\* finished whatever its missed count: all the active Tracks go into the
\* synthesis, and a Track confirmed but never aged out still yields an
\* event.
C25_FlushRule ==
    pc = "run" /\ pc' = "done" =>
        /\ Len(finished') = Len(finished) + Len(active)
        /\ \A k \in 1..Len(finished) : finished'[k] = finished[k]
        /\ \A k \in 1..Len(active) :
               /\ finished'[Len(finished) + k] = active[k]
               /\ active[k].confirmed_at_frame # None =>
                      \E i \in 1..Len(events') :
                          EventAsTuple(events'[i]) = EventOfTrack(active[k])

C25_ActiveTracksFlushedAtEnd == [][C25_FlushRule]_vars

\* The run has ended with a confirmed Track that had missed the last frame
\* and was still active: it is in finished and has its event.
C25_Witness ==
    /\ pc = "done"
    /\ Len(active) = 1
    /\ active[1].missed = 1
    /\ active[1].confirmed_at_frame # None
    /\ Len(finished) = 1
    /\ finished[1] = active[1]
    /\ Len(events) = 1

----------------------------------------------------------------------------
\* C26 -- at the end of every processed frame: every active Track has
\* missed <= gap_frames, every Track matched in the frame has missed = 0,
\* no Track is both active and finished, and a Track in finished is never
\* modified again.

\* The Tracks hit by the step: those created by it and those whose
\* hits_total has grown.
HitByStep ==
    {id \in TrackIds(Tracks') :
        \/ id \notin TrackIds(Tracks)
        \/ TrackOf(Tracks', id).hits_total > TrackOf(Tracks, id).hits_total}

C26_StepRule ==
    /\ Len(finished') >= Len(finished)
    /\ \A k \in 1..Len(finished) : finished'[k] = finished[k]
    /\ FrameStep =>
           /\ \A k \in 1..Len(active') : active'[k].missed <= args.gap_frames
           /\ \A ids \in {HitByStep} :
                  /\ ids = matched_track_ids'
                  /\ \A id \in ids : TrackOf(Tracks', id).missed = 0
           /\ TrackIds(active') \cap TrackIds(finished') = {}
           /\ Cardinality(TrackIds(active')) = Len(active')

----------------------------------------------------------------------------
\* C27 -- at the end of every processed frame the sum of hits_total over
\* all Tracks, active and finished, equals total_roi_conf_pass_detections:
\* every detection that passes ROI and confidence gives exactly one hit to
\* exactly one Track, and nothing else creates a hit.

\* The detections read so far that lie inside the ROI, at or above the
\* floor.
PassingDets ==
    SelectSeq(StreamDets, LAMBDA d : PassesRoi(d, poly) /\ d.confidence >= args.conf)

C27_HitsAreThePassingDetections ==
    pc \in {"run", "done"} =>
        \A n \in {SumHitsTotal(Tracks)} :
            /\ n = total_roi_conf_pass
            /\ n = Len(PassingDets)

\* Two frames: on one a cup and a bottle that share a Track, on the other a
\* cup inside and a cup outside the ROI.
C27_Witness ==
    /\ pc = "run"
    /\ total_frames = 2
    /\ total_whitelist = 4
    /\ total_roi_conf_pass = 3
    /\ discarded_by_roi = 1
    /\ \E k \in 1..Len(Tracks) :
           Tracks[k].hits_total = 3 /\ Cardinality(HitFrameSet(Tracks[k])) = 2

----------------------------------------------------------------------------
\* C28 -- for every Track at every point of the run the counts of its
\* class histogram sum to hits_total, the number of its member records:
\* every accepted hit, the creating one included, is counted once under
\* its class name.

RECURSIVE SumOver(_, _)
SumOver(hist, cs) ==
    IF cs = {} THEN 0
    ELSE LET c == CHOOSE x \in cs : TRUE
         IN  hist[c] + SumOver(hist, cs \ {c})

\* How many members of the Track carry the class name.
MembersOfClass(t, c) ==
    Len(SelectSeq(t.members, LAMBDA mb : mb.class_name = c))

C28_HistogramCountsEveryHitOnce ==
    \A k \in 1..Len(Tracks) :
        \A t \in {Tracks[k]} :
            /\ t.hits_total = Len(t.members)
            /\ SumOver(t.class_hist, Classes) = t.hits_total
            /\ \A c \in Classes : t.class_hist[c] = MembersOfClass(t, c)

----------------------------------------------------------------------------
\* C29 -- for every emitted event, with N >= 1 in consecutive mode or
\* H >= 1 and W >= 1 in window mode, start_frame <= trigger_frame <=
\* end_frame, where start_frame is the Track's confirmed_start_frame,
\* trigger_frame its confirmed_at_frame and end_frame the frame of its last
\* hit.

\* The frame of the Track's last hit.
LastHitFrame(t) == t.hit_frames[Len(t.hit_frames)]

C29_TriggerWithinEvent ==
    /\ \A i \in 1..Len(events) :
           /\ events[i].start_frame <= events[i].trigger_frame
           /\ events[i].trigger_frame <= events[i].end_frame
           /\ \E k \in 1..Len(finished) :
                  /\ finished[k].confirmed_at_frame # None
                  /\ events[i].start_frame = Val(finished[k].confirmed_start_frame)
                  /\ events[i].trigger_frame = Val(finished[k].confirmed_at_frame)
                  /\ events[i].end_frame = LastHitFrame(finished[k])
    /\ \A k \in 1..Len(Tracks) :
           Tracks[k].confirmed_at_frame # None =>
               /\ Val(Tracks[k].confirmed_start_frame) <= Val(Tracks[k].confirmed_at_frame)
               /\ Val(Tracks[k].confirmed_at_frame) <= LastHitFrame(Tracks[k])
               /\ Tracks[k].end_frame = LastHitFrame(Tracks[k])

\* A run with an event that starts before its trigger and ends after it.
C29_Witness ==
    /\ pc = "done"
    /\ \E i \in 1..Len(events) :
           /\ events[i].start_frame < events[i].trigger_frame
           /\ events[i].trigger_frame < events[i].end_frame

----------------------------------------------------------------------------
\* C30 -- in window mode a confirmed Track's confirmed_start_frame can
\* predate the Track's earliest member record (the window reaching back
\* before the Track was constructed), in which case no member exists at
\* confirmed_start_frame and the event's start_time_s is the fallback, the
\* Track's recorded start_time_s.

\* The first frame of the window that confirmed the Track.
ConfirmingWindowStart(t) == Val(t.confirmed_at_frame) - (args.window - 1)

\* The window that confirmed the Track began before the Track did.
WindowReachesBack(t) ==
    /\ args.persist_mode = "window"
    /\ t.confirmed_at_frame # None
    /\ ConfirmingWindowStart(t) < t.start_frame

MemberFrames(t) == {t.members[j].frame_index : j \in 1..Len(t.members)}

\* As stated: a window reaching back before the construction backdates the
\* start before the earliest member, and no member is at the start.
C30_AsStated ==
    \A k \in 1..Len(Tracks) :
        WindowReachesBack(Tracks[k]) =>
            /\ Val(Tracks[k].confirmed_start_frame) < Tracks[k].members[1].frame_index
            /\ Val(Tracks[k].confirmed_start_frame) \notin MemberFrames(Tracks[k])

\* As the code has it: confirmed_start_frame is the least hit frame inside
\* the window, a frame at which the Track has a member, never earlier than
\* its earliest member, whether the window reaches back or not; the event's
\* start_time_s is the timestamp of a member at start_frame.
C30_StartIsAMemberFrame ==
    /\ \A k \in 1..Len(Tracks) :
           \A t \in {Tracks[k]} :
               (args.persist_mode = "window" /\ t.confirmed_at_frame # None) =>
                   /\ Val(t.confirmed_start_frame) \in MemberFrames(t)
                   /\ Val(t.confirmed_start_frame) >= t.members[1].frame_index
                   /\ Val(t.confirmed_start_frame) >= ConfirmingWindowStart(t)
                   /\ WindowReachesBack(t) =>
                          Val(t.confirmed_start_frame) = t.members[1].frame_index
    /\ (pc = "done" /\ args.persist_mode = "window") =>
           \A i \in 1..Len(events) :
               \E k \in ConfirmedIn(finished) :
                   /\ EventAsTuple(events[i]) = EventOfTrack(finished[k])
                   /\ \E j \in 1..Len(finished[k].members) :
                          /\ finished[k].members[j].frame_index = events[i].start_frame
                          /\ finished[k].members[j].timestamp_s = events[i].start_time_s

\* The end of a run with the event of a Track built on frame 1 or later and
\* confirmed by a window that began before that frame.
C30_Witness ==
    /\ pc = "done"
    /\ Len(events) >= 1
    /\ \E k \in ConfirmedIn(finished) :
           /\ WindowReachesBack(finished[k])
           /\ finished[k].start_frame >= 1
           /\ ConfirmingWindowStart(finished[k]) >= 0

====
